---- MODULE Spec2Model ----
(***************************************************************************)
(* The lock-free ring buffer of ringbuf/rb/rb.go (ringBuf.Enqueue and      *)
(* ringBuf.Dequeue) as a state machine.  Every access to shared memory     *)
(* (the 64-bit snapshot load, each CompareAndSwap, the plain store and     *)
(* load of a slot's value) is one step of the calling goroutine, so that   *)
(* goroutines interleave between any two of them.  The increment of        *)
(* putWaits / getWaits is taken together with the failed claim CAS it      *)
(* follows: nothing in the code reads these counters.                      *)
(*                                                                         *)
(* The goroutines are driven by the tests of rb_test.go, one specification *)
(* per test: Spec (producers and consumers calling freely), SpecSPSC       *)
(* (putRandomized), SpecOneByOne (TestRingBuf_Put_OneByOne), SpecPutGet    *)
(* (testQueuePutGet), SpecRoundTrip (Put, then Get, by one goroutine) and  *)
(* SpecSolo (one call run alone from a state of the free run).  The        *)
(* specifications named ...Fair add the weak fairness of the goroutines.   *)
(***************************************************************************)
EXTENDS Integers, Sequences, FiniteSets, TLC

\* ------------------------------------------------------------------ bounds

\* Largest capacity a test asks New for (rounded up to a power of two).
MaxReqCap == 3
\* Number of producer goroutines and of consumer goroutines of the free run.
NumProducers == 2
NumConsumers == 2
\* Number of distinct tokens the producers have to offer.
MaxTokens == 3
\* Value at which the model stops counting putWaits / getWaits (the code
\* only ever adds to them and never reads them).
MaxWaits == 1
\* putRandomized's maxN: the number of integers the single producer enqueues.
MaxN == 5
\* testQueuePutGet: the largest number of tokens, grp * cnt, of a run.
MaxPutGet == 4
\* TestRingBuf_Put_OneByOne: the number of Enqueue calls on the full buffer.
ExtraPuts == 6

\* ------------------------------------------------------------- the values

\* The nil interface value; tokens are the integers 0, 1, 2, ...
Nil == -1

Producers == 1 .. NumProducers
Consumers == (NumProducers + 1) .. (NumProducers + NumConsumers)
Threads == Producers \cup Consumers

ErrNone == "nil"
ErrQueueFull == "ErrQueueFull"
ErrQueueEmpty == "ErrQueueEmpty"
ErrRaced == "ErrRaced"
\* logger.Fatal on a nil element: the process is terminated.
Fatal == "Fatal"

VARIABLES
    cap,        \* ringBuf.cap
    capModMask, \* ringBuf.capModMask
    head,       \* ringBuf.head
    tail,       \* ringBuf.tail
    putWaits,   \* ringBuf.putWaits
    getWaits,   \* ringBuf.getWaits
    rw,         \* rw[i]    = ringBuf.data[i].readWrite
    value,      \* value[i] = ringBuf.data[i].value
    pc,         \* pc[t]: where goroutine t is inside Enqueue / Dequeue
    lhead,      \* local variable head of t's call of Dequeue
    ltail,      \* local variable tail of t's call of Enqueue
    item,       \* parameter / result item of t's call
    err,        \* result err of t's last call
    id,         \* the next token a producer will offer
    fetched,    \* history: items returned by Dequeue with err = nil, in order
    putOK,      \* history: tokens whose Enqueue returned nil
    claimed,    \* history: tokens in the order of the producers' claim CAS
    taken,      \* history: tokens in the order of the consumers' claim CAS
    phase,      \* the position of the test driver
    done,       \* done[t]: the loop counter of goroutine t in its test
    grp,        \* testQueuePutGet's grp
    cnt         \* testQueuePutGet's cnt

rbVars == <<cap, capModMask, head, tail, putWaits, getWaits, rw, value>>
thVars == <<pc, lhead, ltail, item, err>>
histVars == <<fetched, putOK, claimed, taken>>
drvVars == <<id, phase, done, grp, cnt>>
vars == <<rbVars, thVars, histVars, drvVars>>

\* ---------------------------------------------------------- pure helpers

RECURSIVE BitAnd(_, _)
\* a & b on unsigned integers.
BitAnd(a, b) ==
    IF a = 0 \/ b = 0 THEN 0
    ELSE (a % 2) * (b % 2) + 2 * BitAnd(a \div 2, b \div 2)

RECURSIVE RoundUpPow2(_, _)
\* The least power of two >= n that is >= p (p a power of two).
RoundUpPow2(n, p) == IF p >= n THEN p ELSE RoundUpPow2(n, 2 * p)

\* New's capacity: rounded up to the next power of two, at least 2.
NewCap(requested) == RoundUpPow2(requested, 2)

\* rb.qty(head, tail) = (tail - head) & capModMask in uint32 arithmetic;
\* 2^32 is a multiple of cap, so the wrapped difference reduces modulo cap.
qty(h, t) == BitAnd((t - h) % cap, capModMask)

Slots == 0 .. (cap - 1)

\* A counter of the code, counted up to MaxWaits.
Bump(n) == IF n < MaxWaits THEN n + 1 ELSE n

SeqToSet(s) == {s[i] : i \in 1 .. Len(s)}

\* ------------------------------------------------------------ construction

\* New(requested): the state after construction, all goroutines outside the
\* buffer's operations.
New(requested) ==
    /\ cap = NewCap(requested)
    /\ capModMask = NewCap(requested) - 1
    /\ head = 0
    /\ tail = 0
    /\ putWaits = 0
    /\ getWaits = 0
    /\ rw = [i \in 0 .. (NewCap(requested) - 1) |-> 0]
    /\ value = [i \in 0 .. (NewCap(requested) - 1) |-> Nil]
    /\ pc = [t \in Threads |-> "idle"]
    /\ lhead = [t \in Threads |-> 0]
    /\ ltail = [t \in Threads |-> 0]
    /\ item = [t \in Threads |-> Nil]
    /\ err = [t \in Threads |-> ErrNone]
    /\ id = 0
    /\ fetched = <<>>
    /\ putOK = {}
    /\ claimed = <<>>
    /\ taken = <<>>
    /\ done = [t \in Threads |-> 0]

\* ---------------------------------------------------------------- Enqueue

\* rb.Put(item) / rb.Enqueue(item): goroutine t enters Enqueue with item x.
Put(t, x) ==
    /\ pc[t] = "idle"
    /\ pc' = [pc EXCEPT ![t] = "e_load"]
    /\ item' = [item EXCEPT ![t] = x]
    /\ err' = [err EXCEPT ![t] = ErrNone]
    /\ UNCHANGED <<rbVars, lhead, ltail, histVars>>

\* nt without the mask: tail + 1.
NtNoMask(t) == ltail[t] + 1

\* nt = (tail + 1) & rb.capModMask
Nt(t) == BitAnd(ltail[t] + 1, capModMask)

\* The full test without the wrap of nt: tail + 1 == head.
IsFullAtNoMask(h, tl) == tl + 1 = h

\* isFull := nt == head, on the snapshot (h, tl)
IsFullAt(h, tl) == BitAnd(tl + 1, capModMask) = h

\* The item stored in data[tail] before the full test.
EnqLoadStoreFirst(t) ==
    /\ pc[t] = "e_load"
    /\ value' = [value EXCEPT ![tail] = item[t]]
    /\ IF IsFullAt(head, tail)
       THEN /\ err' = [err EXCEPT ![t] = ErrQueueFull]
            /\ pc' = [pc EXCEPT ![t] = "idle"]
            /\ lhead' = [lhead EXCEPT ![t] = 0]
            /\ ltail' = [ltail EXCEPT ![t] = 0]
       ELSE /\ ltail' = [ltail EXCEPT ![t] = tail]
            /\ pc' = [pc EXCEPT ![t] = "e_claim"]
            /\ UNCHANGED <<lhead, err>>
    /\ UNCHANGED <<cap, capModMask, head, tail, putWaits, getWaits, rw,
                   item, histVars, drvVars>>

\* Lines 83-94: the 64-bit load of (head, tail), and the return of
\* ErrQueueFull when the snapshot is full.  The rejected item stays with the
\* caller, the call's locals are gone.  Past the full test Enqueue reads
\* only tail of the snapshot, so only that is kept.
EnqLoad(t) ==
    /\ pc[t] = "e_load"
    /\ IF IsFullAt(head, tail)
       THEN /\ err' = [err EXCEPT ![t] = ErrQueueFull]
            /\ pc' = [pc EXCEPT ![t] = "idle"]
            /\ lhead' = [lhead EXCEPT ![t] = 0]
            /\ ltail' = [ltail EXCEPT ![t] = 0]
       ELSE /\ ltail' = [ltail EXCEPT ![t] = tail]
            /\ pc' = [pc EXCEPT ![t] = "e_claim"]
            /\ UNCHANGED <<lhead, err>>
    /\ UNCHANGED <<rbVars, item, histVars, drvVars>>

\* The producer's claim taking also a slot a consumer has not yet released.
EnqClaimOverRead(t) ==
    /\ pc[t] = "e_claim"
    /\ IF rw[ltail[t]] \in {0, 3}
       THEN /\ rw' = [rw EXCEPT ![ltail[t]] = 2]
            /\ pc' = [pc EXCEPT ![t] = "e_store"]
            /\ claimed' = Append(claimed, item[t])
            /\ UNCHANGED putWaits
       ELSE /\ putWaits' = Bump(putWaits)
            /\ pc' = [pc EXCEPT ![t] = "e_load"]
            /\ UNCHANGED <<rw, claimed>>
    /\ UNCHANGED <<cap, capModMask, head, tail, getWaits, value,
                   lhead, ltail, item, err, fetched, putOK, taken, drvVars>>

\* The claim as a plain store of 2, whatever the slot's state.
EnqClaimStore(t) ==
    /\ pc[t] = "e_claim"
    /\ rw' = [rw EXCEPT ![ltail[t]] = 2]
    /\ pc' = [pc EXCEPT ![t] = "e_store"]
    /\ claimed' = Append(claimed, item[t])
    /\ UNCHANGED <<cap, capModMask, head, tail, putWaits, getWaits, value,
                   lhead, ltail, item, err, fetched, putOK, taken, drvVars>>

\* Lines 96-98 and 104-105: CompareAndSwapUint64(&holder.readWrite, 0, 2) on
\* holder = &rb.data[tail]; when it fails, putWaits is incremented and the
\* loop starts over.
EnqClaim(t) ==
    /\ pc[t] = "e_claim"
    /\ IF rw[ltail[t]] = 0
       THEN /\ rw' = [rw EXCEPT ![ltail[t]] = 2]
            /\ pc' = [pc EXCEPT ![t] = "e_store"]
            /\ claimed' = Append(claimed, item[t])
            /\ UNCHANGED putWaits
       ELSE /\ putWaits' = Bump(putWaits)
            /\ pc' = [pc EXCEPT ![t] = "e_load"]
            /\ UNCHANGED <<rw, claimed>>
    /\ UNCHANGED <<cap, capModMask, head, tail, getWaits, value,
                   lhead, ltail, item, err, fetched, putOK, taken, drvVars>>

\* The store made to a copy of the slot: the slot's value stays as it was.
EnqStoreLost(t) ==
    /\ pc[t] = "e_store"
    /\ pc' = [pc EXCEPT ![t] = "e_tail"]
    /\ UNCHANGED <<rbVars, lhead, ltail, item, err, histVars, drvVars>>

\* Line 99: holder.value = item
EnqStore(t) ==
    /\ pc[t] = "e_store"
    /\ value' = [value EXCEPT ![ltail[t]] = item[t]]
    /\ pc' = [pc EXCEPT ![t] = "e_tail"]
    /\ UNCHANGED <<cap, capModMask, head, tail, putWaits, getWaits, rw,
                   lhead, ltail, item, err, histVars, drvVars>>

\* Enqueue without the CAS on tail.
EnqAdvanceSkipped(t) ==
    /\ pc[t] = "e_tail"
    /\ pc' = [pc EXCEPT ![t] = "e_pub"]
    /\ UNCHANGED <<rbVars, lhead, ltail, item, err, histVars, drvVars>>

\* Line 100: CompareAndSwapUint32(&rb.tail, tail, nt), its result ignored.
EnqAdvance(t) ==
    /\ pc[t] = "e_tail"
    /\ tail' = IF tail = ltail[t] THEN Nt(t) ELSE tail
    /\ pc' = [pc EXCEPT ![t] = "e_pub"]
    /\ UNCHANGED <<cap, capModMask, head, putWaits, getWaits, rw, value,
                   lhead, ltail, item, err, histVars, drvVars>>

\* Enqueue returning nil without the publish CAS: the slot stays in state 2.
EnqPublishSkipped(t) ==
    /\ pc[t] = "e_pub"
    /\ err' = [err EXCEPT ![t] = ErrNone]
    /\ putOK' = putOK \cup {item[t]}
    /\ pc' = [pc EXCEPT ![t] = "idle"]
    /\ item' = [item EXCEPT ![t] = Nil]
    /\ lhead' = [lhead EXCEPT ![t] = 0]
    /\ ltail' = [ltail EXCEPT ![t] = 0]
    /\ UNCHANGED <<rbVars, fetched, claimed, taken, drvVars>>

\* Lines 108-116: CompareAndSwapUint64(&holder.readWrite, 2, 1); ErrRaced
\* when it fails, nil otherwise.
EnqPublish(t) ==
    /\ pc[t] = "e_pub"
    /\ IF rw[ltail[t]] = 2
       THEN /\ rw' = [rw EXCEPT ![ltail[t]] = 1]
            /\ err' = [err EXCEPT ![t] = ErrNone]
            /\ putOK' = putOK \cup {item[t]}
       ELSE /\ err' = [err EXCEPT ![t] = ErrRaced]
            /\ UNCHANGED <<rw, putOK>>
    /\ pc' = [pc EXCEPT ![t] = "idle"]
    /\ item' = [item EXCEPT ![t] = Nil]
    /\ lhead' = [lhead EXCEPT ![t] = 0]
    /\ ltail' = [ltail EXCEPT ![t] = 0]
    /\ UNCHANGED <<cap, capModMask, head, tail, putWaits, getWaits, value,
                   fetched, claimed, taken, drvVars>>

\* ---------------------------------------------------------------- Dequeue

\* rb.Get() / rb.Dequeue(): goroutine t enters Dequeue.
Get(t) ==
    /\ pc[t] = "idle"
    /\ pc' = [pc EXCEPT ![t] = "d_load"]
    /\ item' = [item EXCEPT ![t] = Nil]
    /\ err' = [err EXCEPT ![t] = ErrNone]
    /\ UNCHANGED <<rbVars, lhead, ltail, histVars>>

\* nh = (head + 1) & rb.capModMask
Nh(t) == BitAnd(lhead[t] + 1, capModMask)

\* isEmpty := head == tail, on the snapshot (h, tl)
IsEmptyAt(h, tl) == h = tl

\* Lines 129-139: the 64-bit load of (head, tail), and the return of
\* ErrQueueEmpty when the snapshot is empty.  Past the empty test Dequeue
\* reads tail of the snapshot only to format the message of the nil branch,
\* so only head is kept.
DeqLoad(t) ==
    /\ pc[t] = "d_load"
    /\ IF IsEmptyAt(head, tail)
       THEN /\ err' = [err EXCEPT ![t] = ErrQueueEmpty]
            /\ pc' = [pc EXCEPT ![t] = "idle"]
            /\ lhead' = [lhead EXCEPT ![t] = 0]
            /\ ltail' = [ltail EXCEPT ![t] = 0]
       ELSE /\ lhead' = [lhead EXCEPT ![t] = head]
            /\ pc' = [pc EXCEPT ![t] = "d_claim"]
            /\ UNCHANGED <<ltail, err>>
    /\ UNCHANGED <<rbVars, item, histVars, drvVars>>

\* The consumer's claim taking also a slot another consumer is reading.
DeqClaimShared(t) ==
    /\ pc[t] = "d_claim"
    /\ IF rw[lhead[t]] \in {1, 3}
       THEN /\ rw' = [rw EXCEPT ![lhead[t]] = 3]
            /\ pc' = [pc EXCEPT ![t] = "d_read"]
            /\ taken' = Append(taken, value[lhead[t]])
            /\ UNCHANGED getWaits
       ELSE /\ getWaits' = Bump(getWaits)
            /\ pc' = [pc EXCEPT ![t] = "d_load"]
            /\ UNCHANGED <<rw, taken>>
    /\ UNCHANGED <<cap, capModMask, head, tail, putWaits, value,
                   lhead, ltail, item, err, fetched, putOK, claimed, drvVars>>

\* The consumer's claim from state 2 ("write ok") instead of 1.
DeqClaimWriteOK(t) ==
    /\ pc[t] = "d_claim"
    /\ IF rw[lhead[t]] = 2
       THEN /\ rw' = [rw EXCEPT ![lhead[t]] = 3]
            /\ pc' = [pc EXCEPT ![t] = "d_read"]
            /\ taken' = Append(taken, value[lhead[t]])
            /\ UNCHANGED getWaits
       ELSE /\ getWaits' = Bump(getWaits)
            /\ pc' = [pc EXCEPT ![t] = "d_load"]
            /\ UNCHANGED <<rw, taken>>
    /\ UNCHANGED <<cap, capModMask, head, tail, putWaits, value,
                   lhead, ltail, item, err, fetched, putOK, claimed, drvVars>>

\* Lines 141-143 and 172-173: CompareAndSwapUint64(&holder.readWrite, 1, 3)
\* on holder = &rb.data[head]; when it fails, getWaits is incremented and the
\* loop starts over.
DeqClaim(t) ==
    /\ pc[t] = "d_claim"
    /\ IF rw[lhead[t]] = 1
       THEN /\ rw' = [rw EXCEPT ![lhead[t]] = 3]
            /\ pc' = [pc EXCEPT ![t] = "d_read"]
            /\ taken' = Append(taken, value[lhead[t]])
            /\ UNCHANGED getWaits
       ELSE /\ getWaits' = Bump(getWaits)
            /\ pc' = [pc EXCEPT ![t] = "d_load"]
            /\ UNCHANGED <<rw, taken>>
    /\ UNCHANGED <<cap, capModMask, head, tail, putWaits, value,
                   lhead, ltail, item, err, fetched, putOK, claimed, drvVars>>

\* Line 166: item = holder.value
DeqRead(t) ==
    /\ pc[t] = "d_read"
    /\ item' = [item EXCEPT ![t] = value[lhead[t]]]
    /\ pc' = [pc EXCEPT ![t] = "d_head"]
    /\ UNCHANGED <<rbVars, lhead, ltail, err, histVars, drvVars>>

\* Lines 167-168: CompareAndSwapUint32(&rb.head, head, nh), result ignored.
DeqAdvance(t) ==
    /\ pc[t] = "d_head"
    /\ head' = IF head = lhead[t] THEN Nh(t) ELSE head
    /\ pc' = [pc EXCEPT ![t] = "d_rel"]
    /\ UNCHANGED <<cap, capModMask, tail, putWaits, getWaits, rw, value,
                   lhead, ltail, item, err, histVars, drvVars>>

\* The release as CAS(3, 1): the slot goes back to Readable.
DeqReleaseReadable(t) ==
    /\ pc[t] = "d_rel"
    /\ IF rw[lhead[t]] = 3
       THEN /\ rw' = [rw EXCEPT ![lhead[t]] = 1]
            /\ IF item[t] = Nil
               THEN /\ err' = [err EXCEPT ![t] = Fatal]
                    /\ UNCHANGED fetched
               ELSE /\ err' = [err EXCEPT ![t] = ErrNone]
                    /\ fetched' = Append(fetched, item[t])
       ELSE /\ err' = [err EXCEPT ![t] = ErrRaced]
            /\ UNCHANGED <<rw, fetched>>
    /\ pc' = [pc EXCEPT ![t] = "idle"]
    /\ item' = [item EXCEPT ![t] = Nil]
    /\ lhead' = [lhead EXCEPT ![t] = 0]
    /\ ltail' = [ltail EXCEPT ![t] = 0]
    /\ UNCHANGED <<cap, capModMask, head, tail, putWaits, getWaits, value,
                   putOK, claimed, taken, drvVars>>

\* Lines 180-193: CompareAndSwapUint64(&holder.readWrite, 3, 0); ErrRaced
\* when it fails; then the nil check, which ends in logger.Fatal.
DeqRelease(t) ==
    /\ pc[t] = "d_rel"
    /\ IF rw[lhead[t]] = 3
       THEN /\ rw' = [rw EXCEPT ![lhead[t]] = 0]
            /\ IF item[t] = Nil
               THEN /\ err' = [err EXCEPT ![t] = Fatal]
                    /\ UNCHANGED fetched
               ELSE /\ err' = [err EXCEPT ![t] = ErrNone]
                    /\ fetched' = Append(fetched, item[t])
       ELSE /\ err' = [err EXCEPT ![t] = ErrRaced]
            /\ UNCHANGED <<rw, fetched>>
    /\ pc' = [pc EXCEPT ![t] = "idle"]
    /\ item' = [item EXCEPT ![t] = Nil]
    /\ lhead' = [lhead EXCEPT ![t] = 0]
    /\ ltail' = [ltail EXCEPT ![t] = 0]
    /\ UNCHANGED <<cap, capModMask, head, tail, putWaits, getWaits, value,
                   putOK, claimed, taken, drvVars>>

\* One step of goroutine t inside Enqueue or Dequeue.
Step(t) ==
    \/ EnqLoad(t)
    \/ EnqClaim(t)
    \/ EnqStore(t)
    \/ EnqAdvance(t)
    \/ EnqPublish(t)
    \/ DeqLoad(t)
    \/ DeqClaim(t)
    \/ DeqRead(t)
    \/ DeqAdvance(t)
    \/ DeqRelease(t)

\* ------------------------------------- free run: producers and consumers

\* The item a producer offers next: the one ErrQueueFull sent back, or a
\* fresh token.
Offer(t) == IF item[t] # Nil THEN item[t] ELSE id

\* A producer calls Put with its next item (retrying the rejected one); n
\* bounds the number of tokens.
ProduceUpTo(t, n) ==
    /\ item[t] # Nil \/ id < n
    /\ Put(t, Offer(t))
    /\ id' = IF item[t] # Nil THEN id ELSE id + 1

\* A producer of the free run calls Put.
Produce(t) ==
    /\ t \in Producers
    /\ phase = "run"
    /\ ProduceUpTo(t, MaxTokens)
    /\ UNCHANGED <<phase, done, grp, cnt>>

\* A consumer of the free run calls Get.
Consume(t) ==
    /\ t \in Consumers
    /\ phase = "run"
    /\ Get(t)
    /\ UNCHANGED drvVars

Init ==
    /\ \E requested \in 1 .. MaxReqCap : New(requested)
    /\ phase = "run"
    /\ grp = 0
    /\ cnt = 0

Next ==
    \E t \in Threads : Produce(t) \/ Consume(t) \/ Step(t)

Spec == Init /\ [][Next]_vars

\* ----------------------- putRandomized: one producer and one consumer

TheProducer == 1
TheConsumer == NumProducers + 1

\* The producer goroutine: Enqueue(i) for i < maxN, the same i again after
\* ErrQueueFull.
RandomizedPut ==
    /\ ProduceUpTo(TheProducer, MaxN)
    /\ UNCHANGED <<phase, done, grp, cnt>>

\* The consumer goroutine: Dequeue, again after ErrQueueEmpty.
RandomizedGet ==
    /\ Get(TheConsumer)
    /\ UNCHANGED drvVars

NextSPSC ==
    \/ RandomizedPut
    \/ RandomizedGet
    \/ \E t \in {TheProducer, TheConsumer} : Step(t)

SpecSPSC == Init /\ [][NextSPSC]_vars

\* The steps of the consumer goroutine: it calls Dequeue again and again.
ConsumerRuns == RandomizedGet \/ Step(TheConsumer)

\* The Go scheduler is preemptive: a goroutine inside a call eventually
\* takes its next step, and the consumer's loop eventually calls Dequeue
\* again.  The producer may stop between two calls of Enqueue.
SpecSPSCFair ==
    /\ SpecSPSC
    /\ WF_vars(Step(TheProducer))
    /\ WF_vars(ConsumerRuns)

\* ------------------------ TestRingBuf_Put_OneByOne: a single goroutine

TheTester == 1

\* size := rb.Cap() - 1
size == cap - 1

\* for i < size: err = rb.Enqueue(i)
OneByOneFill ==
    /\ phase = "fill"
    /\ Put(TheTester, done[TheTester])
    /\ phase' = "fill_ret"
    /\ UNCHANGED <<id, done, grp, cnt>>

\* if err != nil { t.Fatalf }; i++
OneByOneFillRet ==
    /\ phase = "fill_ret"
    /\ pc[TheTester] = "idle"
    /\ IF err[TheTester] # ErrNone
       THEN phase' = "failed" /\ done' = done
       ELSE /\ done' = [done EXCEPT ![TheTester] = @ + 1]
            /\ phase' = IF done[TheTester] + 1 < size THEN "fill" ELSE "over"
    /\ UNCHANGED <<rbVars, thVars, histVars, id, grp, cnt>>

\* for i := size; i < size+6: err = rb.Enqueue(i)
OneByOneOver ==
    /\ phase = "over"
    /\ Put(TheTester, done[TheTester])
    /\ phase' = "over_ret"
    /\ UNCHANGED <<id, done, grp, cnt>>

\* if err != ErrQueueFull { t.Fatalf }; i++
OneByOneOverRet ==
    /\ phase = "over_ret"
    /\ pc[TheTester] = "idle"
    /\ IF err[TheTester] # ErrQueueFull
       THEN phase' = "failed" /\ done' = done
       ELSE /\ done' = [done EXCEPT ![TheTester] = @ + 1]
            /\ phase' = IF done[TheTester] + 1 < size + ExtraPuts
                        THEN "over" ELSE "drain"
    /\ UNCHANGED <<rbVars, thVars, histVars, id, grp, cnt>>

\* for { it, err = rb.Dequeue()
OneByOneDrain ==
    /\ phase = "drain"
    /\ Get(TheTester)
    /\ phase' = "drain_ret"
    /\ UNCHANGED <<id, done, grp, cnt>>

\* if err != nil { if err == ErrQueueEmpty { break }; t.Fatalf } }
OneByOneDrainRet ==
    /\ phase = "drain_ret"
    /\ pc[TheTester] = "idle"
    /\ phase' = IF err[TheTester] = ErrNone THEN "drain"
                ELSE IF err[TheTester] = ErrQueueEmpty THEN "end"
                ELSE "failed"
    /\ UNCHANGED <<rbVars, thVars, histVars, id, done, grp, cnt>>

InitOneByOne ==
    /\ \E requested \in 1 .. MaxReqCap : New(requested)
    /\ phase = "fill"
    /\ grp = 0
    /\ cnt = 0

NextOneByOne ==
    \/ OneByOneFill
    \/ OneByOneFillRet
    \/ OneByOneOver
    \/ OneByOneOverRet
    \/ OneByOneDrain
    \/ OneByOneDrainRet
    \/ Step(TheTester)

SpecOneByOne == InitOneByOne /\ [][NextOneByOne]_vars

\* ------------- testQueuePutGet: grp producers, and then grp consumers

Group == 1 .. grp

\* A producer goroutine: for j < cnt: rb.Enqueue(&val) with a val of a fresh
\* id, the same val again after ErrQueueFull.
PutGetPut(t) ==
    /\ phase = "put"
    /\ t \in Group
    /\ item[t] # Nil \/ done[t] < cnt
    /\ Put(t, Offer(t))
    /\ id' = IF item[t] # Nil THEN id ELSE id + 1
    /\ done' = IF item[t] # Nil THEN done ELSE [done EXCEPT ![t] = @ + 1]
    /\ UNCHANGED <<phase, grp, cnt>>

\* A goroutine of the test has left its loop.
PutterDone(t) == pc[t] = "idle" /\ item[t] = Nil /\ done[t] = cnt
GetterDone(t) == pc[t] = "idle" /\ err[t] # ErrQueueEmpty /\ done[t] = cnt

\* wg.Wait(), and the consumer goroutines start.
PutGetWait ==
    /\ phase = "put"
    /\ \A t \in Group : PutterDone(t)
    /\ phase' = "get"
    /\ done' = [t \in Threads |-> 0]
    /\ err' = [t \in Threads |-> ErrNone]
    /\ UNCHANGED <<rbVars, pc, lhead, ltail, item, histVars, id, grp, cnt>>

\* A consumer goroutine: for j < cnt: rb.Get(), again after ErrQueueEmpty.
PutGetGet(t) ==
    /\ phase = "get"
    /\ t \in Group
    /\ err[t] = ErrQueueEmpty \/ done[t] < cnt
    /\ Get(t)
    /\ done' = IF err[t] = ErrQueueEmpty THEN done
               ELSE [done EXCEPT ![t] = @ + 1]
    /\ UNCHANGED <<id, phase, grp, cnt>>

\* wg2.Wait(); if q := rb.Quantity(); q != 0 { t.Errorf }
PutGetEnd ==
    /\ phase = "get"
    /\ \A t \in Group : GetterDone(t)
    /\ phase' = IF qty(head, tail) # 0 THEN "failed" ELSE "end"
    /\ UNCHANGED <<rbVars, thVars, histVars, id, done, grp, cnt>>

InitPutGet ==
    /\ \E requested \in 1 .. (MaxPutGet + 1) : New(requested)
    /\ phase = "put"
    /\ grp \in 1 .. NumProducers
    /\ cnt \in 1 .. MaxPutGet
    /\ grp * cnt <= MaxPutGet
    /\ grp * cnt <= cap - 1

NextPutGet ==
    \/ \E t \in Threads : PutGetPut(t) \/ PutGetGet(t) \/ Step(t)
    \/ PutGetWait
    \/ PutGetEnd

SpecPutGet == InitPutGet /\ [][NextPutGet]_vars

\* A step of goroutine t of the test.
PutGetGoroutine(t) == PutGetPut(t) \/ PutGetGet(t) \/ Step(t)

\* The Go scheduler is preemptive: every goroutine that can take a step
\* eventually takes one, and so does the test function itself.
SpecPutGetFair ==
    /\ SpecPutGet
    /\ \A t \in Threads : WF_vars(PutGetGoroutine(t))
    /\ WF_vars(PutGetWait)
    /\ WF_vars(PutGetEnd)

\* ------- round trip: Enqueue and then Dequeue by one goroutine, alone

\* No goroutine is inside Enqueue or Dequeue.
Quiescent == \A t \in Threads : pc[t] = "idle"

\* rb.IsEmpty(), from the index pair.
IsEmpty == IsEmptyAt(head, tail)

\* From a state of the free run with no call in progress and an empty
\* buffer, the tester calls Enqueue with a fresh token; from here on no
\* other goroutine takes a step.
RoundTripPut ==
    /\ phase = "run"
    /\ Quiescent
    /\ IsEmpty
    /\ Put(TheTester, id)
    /\ id' = id + 1
    /\ phase' = "rt_put"
    /\ UNCHANGED <<done, grp, cnt>>

\* Enqueue has returned: the tester calls Dequeue.
RoundTripGet ==
    /\ phase = "rt_put"
    /\ Get(TheTester)
    /\ phase' = "rt_get"
    /\ UNCHANGED <<id, done, grp, cnt>>

\* Produce and Consume need phase = "run": inside the round trip the only
\* steps of Next are the tester's steps through its own call.
NextRoundTrip ==
    \/ Next
    \/ RoundTripPut
    \/ RoundTripGet

SpecRoundTrip == Init /\ [][NextRoundTrip]_vars

\* ------------- a call that runs alone, from any state of the free run

\* The positions of a goroutine that holds no slot: outside a call, or in
\* the loop before its claim CAS has succeeded.
BeforeClaim == {"idle", "e_load", "e_claim", "d_load", "d_claim"}

\* The goroutine that runs alone: the producer in an Enqueue call, the
\* consumer in a Dequeue call.
SoloThread == IF phase = "solo_put" THEN TheProducer ELSE TheConsumer

\* The goroutines of the free run take their steps.
FreeRun ==
    /\ phase = "run"
    /\ Next

\* No other goroutine is between its claim CAS and its release CAS; the
\* producer calls Enqueue and from here on no other goroutine takes a step.
SoloPut ==
    /\ phase = "run"
    /\ \A u \in Threads \ {TheProducer} : pc[u] \in BeforeClaim
    /\ ProduceUpTo(TheProducer, MaxTokens + 1)
    /\ phase' = "solo_put"
    /\ UNCHANGED <<done, grp, cnt>>

\* The same for the consumer calling Dequeue.
SoloGet ==
    /\ phase = "run"
    /\ \A u \in Threads \ {TheConsumer} : pc[u] \in BeforeClaim
    /\ Get(TheConsumer)
    /\ phase' = "solo_get"
    /\ UNCHANGED <<id, done, grp, cnt>>

\* A step of the call that runs alone.
SoloStep ==
    /\ phase \in {"solo_put", "solo_get"}
    /\ Step(SoloThread)

NextSolo ==
    \/ FreeRun
    \/ SoloPut
    \/ SoloGet
    \/ SoloStep

SpecSolo == Init /\ [][NextSolo]_vars

\* ----------------------------------------------------------------- claims

\* No goroutine is between its claim CAS and its release CAS.
NoneInFlight ==
    \A t \in Threads : pc[t] \in {"idle", "e_load", "e_claim", "d_load", "d_claim"}

\* The slots that hold an element no consumer has claimed yet.
Held == {i \in Slots : rw[i] \in {1, 2}}

\* The slots in state Readable.
Readable == {i \in Slots : rw[i] = 1}

\* C1: whenever the buffer is drained (no operation in progress and
\* head = tail), the multiset of tokens returned by successful Dequeue calls
\* equals the multiset of tokens whose Enqueue returned nil.
C1_NoLossNoDup ==
    (Quiescent /\ IsEmpty) =>
        /\ Len(fetched) = Cardinality(putOK)
        /\ SeqToSet(fetched) = putOK

\* C2: with one producer enqueuing 0, 1, 2, ... and one consumer, the values
\* the successful Dequeue calls return are 0, 1, 2, ... in that order with no
\* gap, repeat or reordering, and once the buffer is drained they are all the
\* values whose Enqueue returned nil.
C2_FIFO ==
    /\ \A i \in 1 .. Len(fetched) : fetched[i] = i - 1
    /\ (Quiescent /\ IsEmpty) => Len(fetched) = Cardinality(putOK)

\* C2's case: more values were delivered in order than the buffer has slots,
\* so the indices have wrapped.
C2_Wrapped == Len(fetched) > cap /\ fetched[Len(fetched)] = Len(fetched) - 1

\* C3: if E1 and E2 are Enqueue calls that returned nil and E1's claim CAS
\* (0 -> 2) precedes E2's, then whenever E2's payload has been taken by a
\* consumer's claim CAS (1 -> 3), E1's payload was taken by an earlier one.
C3_CrossProducerOrder ==
    \A k \in 1 .. Len(claimed) : \A j \in 1 .. Len(taken) :
        (taken[j] = claimed[k] /\ claimed[k] \in putOK) =>
            \A i \in 1 .. (k - 1) :
                claimed[i] \in putOK =>
                    \E m \in 1 .. (j - 1) : taken[m] = claimed[i]

\* C4: in the one-goroutine test on a fresh buffer the first cap - 1 Enqueue
\* calls return nil, the further ones ErrQueueFull, the Dequeue calls then
\* return the values in enqueue order and the one after the last value
\* returns ErrQueueEmpty; no call returns ErrRaced.
C4_FillDrain ==
    /\ phase # "failed"
    /\ \A t \in Threads : err[t] \notin {ErrRaced, Fatal}
    /\ \A i \in 1 .. Len(fetched) : fetched[i] = i - 1
    /\ phase \in {"over", "over_ret", "drain", "drain_ret", "end"} =>
           putOK = 0 .. (size - 1)
    /\ phase = "end" => Len(fetched) = size

\* C4's case: the test has run to its end on a buffer of more than two slots.
C4_Ended == phase = "end" /\ size > 1 /\ Len(fetched) = size

\* The safety part of C5.
PhaseSeparatedOK ==
    /\ phase # "failed"
    /\ \A t \in Threads : err[t] \notin {ErrRaced, Fatal}
    /\ (phase = "get" /\ \A t \in Group : GetterDone(t)) =>
           /\ qty(head, tail) = 0
           /\ Len(fetched) = grp * cnt
           /\ Cardinality(putOK) = grp * cnt
           /\ SeqToSet(fetched) = putOK

\* C5: when grp producers, each enqueuing cnt tokens (grp * cnt <= cap - 1),
\* all finish before grp consumers each dequeue cnt tokens, no call returns
\* ErrRaced, every consumer obtains its cnt tokens (the test reaches its end
\* with the Quantity check passed), and when all consumers have finished
\* Quantity() is 0 and the consumed tokens are the enqueued ones.
C5_PhaseSeparated == []PhaseSeparatedOK /\ <>(phase = "end")

\* C5's case: two producers and two consumers with two tokens each are done.
C5_Ended == phase = "end" /\ grp >= 2 /\ cnt >= 2 /\ Len(fetched) = grp * cnt

\* C6: a Dequeue that has read its slot holds a non-nil item, so the nil
\* branch (logger.Fatal) is never taken.
C6_NeverNil ==
    \A t \in Threads :
        /\ err[t] # Fatal
        /\ pc[t] \in {"d_head", "d_rel"} => item[t] # Nil

\* C6's case: a consumer is at its release CAS with the item it has read,
\* while a producer has claimed a slot and not yet stored its item.
C6_Reading ==
    \E t, u \in Threads :
        pc[t] = "d_rel" /\ item[t] # Nil /\ pc[u] = "e_store"

\* C7: the release CAS of Enqueue (2 -> 1) and of Dequeue (3 -> 0) always
\* finds the expected state; no call returns ErrRaced.
C7_NoRaced ==
    \A t \in Threads :
        /\ err[t] # ErrRaced
        /\ pc[t] = "e_pub" => rw[ltail[t]] = 2
        /\ pc[t] = "d_rel" => rw[lhead[t]] = 3

\* C7's case: a producer and a consumer are both at their release CAS, the
\* producer after its CAS on tail has failed.
C7_Releasing ==
    \E t, u \in Threads :
        pc[t] = "e_pub" /\ tail # Nt(t) /\ pc[u] = "d_rel"

\* C8: the number of elements held (claimed by an Enqueue, not yet claimed
\* by a Dequeue) is at most cap - 1.
C8_UsableCapacity == Cardinality(Held) <= cap - 1

\* C9: when no call is between its claim and its release CAS,
\* (tail - head) & mask is the number of Readable slots, these are the slots
\* head, head + 1, ..., tail - 1 (mod cap), and head = tail exactly when no
\* slot is Readable.
C9_CountMatchesContent ==
    NoneInFlight =>
        /\ qty(head, tail) = Cardinality(Readable)
        /\ Readable = {(head + k) % cap : k \in 0 .. (qty(head, tail) - 1)}
        /\ (head = tail) <=> (Readable = {})

\* C10: from a state with no call in progress and head = tail, Enqueue(x)
\* run alone claims its slot at once and returns nil, the Dequeue that
\* follows claims its slot at once and returns x with no error, and then
\* head = tail again.
C10_RoundTrip ==
    /\ (phase = "rt_put" /\ pc[TheTester] = "e_claim") =>
           rw[ltail[TheTester]] = 0
    /\ (phase = "rt_put" /\ pc[TheTester] = "idle") =>
           err[TheTester] = ErrNone
    /\ (phase = "rt_get" /\ pc[TheTester] = "d_claim") =>
           rw[lhead[TheTester]] = 1
    /\ (phase = "rt_get" /\ pc[TheTester] = "idle") =>
           /\ err[TheTester] = ErrNone
           /\ fetched # <<>>
           /\ fetched[Len(fetched)] = id - 1
           /\ head = tail

\* C11: an Enqueue or Dequeue call that runs alone, started in a state where
\* no other goroutine is between its claim CAS and its release CAS, never
\* fails its claim CAS (a failed claim of a call that runs alone repeats for
\* ever: nothing changes the slot), and returns nil, ErrQueueFull or
\* ErrQueueEmpty.
C11_ObstructionFree ==
    /\ (phase = "solo_put" /\ pc[TheProducer] = "e_claim") =>
           rw[ltail[TheProducer]] = 0
    /\ (phase = "solo_put" /\ pc[TheProducer] = "idle") =>
           err[TheProducer] \in {ErrNone, ErrQueueFull}
    /\ (phase = "solo_get" /\ pc[TheConsumer] = "d_claim") =>
           rw[lhead[TheConsumer]] = 1
    /\ (phase = "solo_get" /\ pc[TheConsumer] = "idle") =>
           err[TheConsumer] \in {ErrNone, ErrQueueEmpty}


\* The abstract FIFO queue: the tokens in the order of the producers' claim
\* CAS, without those the consumers' claim CAS have taken from its front.
AbstractLen == Len(claimed) - Len(taken)

\* Every Dequeue's claim CAS takes the front of the abstract queue: the
\* k-th token taken is the k-th token claimed; and Dequeue returns a token
\* its claim CAS took.
TakesFront ==
    /\ \A j \in 1 .. Len(taken) : j <= Len(claimed) /\ taken[j] = claimed[j]
    /\ SeqToSet(fetched) \subseteq SeqToSet(taken)

\* A step in which goroutine t returns ErrQueueEmpty, ErrQueueFull.
ReturnsEmpty(t) == pc[t] = "d_load" /\ pc'[t] = "idle"
ReturnsFull(t) == pc[t] = "e_load" /\ pc'[t] = "idle"

\* C12: the buffer refines a FIFO queue of cap - 1 elements in which Enqueue
\* takes effect at its claim CAS (0 -> 2) and Dequeue at its claim CAS
\* (1 -> 3): every successful Dequeue takes the front of the abstract queue,
\* Dequeue returns ErrQueueEmpty only when the abstract queue is empty at its
\* snapshot load, and Enqueue returns ErrQueueFull only when the abstract
\* queue holds cap - 1 elements at its snapshot load.
C12_LinearizableAtClaim ==
    /\ []TakesFront
    /\ [][\A t \in Threads :
             /\ ReturnsEmpty(t) => AbstractLen = 0
             /\ ReturnsFull(t) => AbstractLen = cap - 1]_vars


\* The goroutines between their claim CAS and their release CAS on slot i:
\* the producers writing it, the consumers reading it.
Writers(i) ==
    {t \in Threads : pc[t] \in {"e_store", "e_tail", "e_pub"} /\ ltail[t] = i}
Readers(i) ==
    {t \in Threads : pc[t] \in {"d_read", "d_head", "d_rel"} /\ lhead[t] = i}

\* No element occurs twice in the sequence s.
NoRepeat(s) == \A i, j \in 1 .. Len(s) : i # j => s[i] # s[j]

\* C13: no two successful Dequeue calls return the payload of the same
\* Enqueue call (the tokens are distinct), no two claim CAS (1 -> 3) take the
\* same publication, and at most one consumer holds a slot at a time.
C13_OneConsumerPerElement ==
    /\ NoRepeat(fetched)
    /\ NoRepeat(taken)
    /\ \A i \in Slots : Cardinality(Readers(i)) <= 1

\* C13's case: two consumers went for the same slot, one has won the claim
\* CAS and the other is about to try it.
C13_Contended ==
    \E t, u \in Threads :
        /\ t # u
        /\ pc[t] = "d_claim"
        /\ u \in Readers(lhead[t])

\* The state part of C14: a slot is held by at most one goroutine, and is in
\* state 2 while a producer holds it and in state 3 while a consumer does.
ExclusiveHolder ==
    \A i \in Slots :
        /\ Cardinality(Writers(i) \cup Readers(i)) <= 1
        /\ Writers(i) # {} => rw[i] = 2
        /\ Readers(i) # {} => rw[i] = 3

\* C14: at most one goroutine is between its claim CAS and its release CAS
\* on a slot; a slot's value changes only in the store of the producer that
\* holds it, in state WriteInProgress, and is read only by the consumer that
\* holds it, in state ReadInProgress.
C14_ExclusivePayload ==
    /\ []ExclusiveHolder
    /\ [][\A i \in Slots :
             value'[i] # value[i] =>
                 /\ rw[i] = 2
                 /\ \E t \in Writers(i) :
                        pc[t] = "e_store" /\ pc'[t] = "e_tail"]_vars

\* C14's case: a producer is about to store into the slot it holds while a
\* consumer holds another slot and has not yet released it.
C14_BothHeld ==
    \E t, u \in Threads :
        /\ pc[t] = "e_store"
        /\ u \in Readers(lhead[u])
        /\ ltail[t] # lhead[u]


\* The Enqueue half and the Dequeue half of C15.
TailCASFinds == \A t \in Threads : pc[t] = "e_tail" => tail = ltail[t]
HeadCASFinds == \A t \in Threads : pc[t] = "d_head" => head = lhead[t]

\* C15: a goroutine that has won the claim CAS on the slot of its snapshot
\* index finds the index still equal to its snapshot at its index CAS, so the
\* CAS on tail (Enqueue) and on head (Dequeue) never fails and every
\* successful call advances its index by one slot.
C15_IndexCASNeverMissed == TailCASFinds /\ HeadCASFinds


\* Goroutine t moves from position p to position q in this step.
Moves(t, p, q) == pc[t] = p /\ pc'[t] = q

\* The change of slot i's marker in this step is one of the four transitions
\* of the cycle, made by the operation it belongs to.
OnCycle(i) ==
    \/ rw[i] = 0 /\ rw'[i] = 2 /\ \E t \in Threads : Moves(t, "e_claim", "e_store")
    \/ rw[i] = 2 /\ rw'[i] = 1 /\ \E t \in Threads : Moves(t, "e_pub", "idle")
    \/ rw[i] = 1 /\ rw'[i] = 3 /\ \E t \in Threads : Moves(t, "d_claim", "d_read")
    \/ rw[i] = 3 /\ rw'[i] = 0 /\ \E t \in Threads : Moves(t, "d_rel", "idle")

\* C16: every slot's readWrite starts at 0, is always one of 0, 1, 2, 3, and
\* changes only by 0 -> 2 (Enqueue's claim), 2 -> 1 (Enqueue's publish),
\* 1 -> 3 (Dequeue's claim) and 3 -> 0 (Dequeue's release).
C16_SlotStateMachine ==
    /\ \A i \in Slots : rw[i] = 0
    /\ [](\A i \in Slots : rw[i] \in {0, 1, 2, 3})
    /\ [][\A i \in Slots : rw'[i] # rw[i] => OnCycle(i)]_vars

\* C16's case: a slot that has been through the whole cycle is claimed by a
\* producer again, the value of the last round still in it.
C16_Cycled ==
    \E t \in Threads : pc[t] = "e_store" /\ value[ltail[t]] # Nil

\* C17: head and tail, and the snapshot indices used for data[tail] and
\* data[head], are always in 0 .. cap - 1; tail changes only from i to
\* (i + 1) & mask in Enqueue's CAS on tail, head only from i to
\* (i + 1) & mask in Dequeue's CAS on head.
C17_IndexRange ==
    /\ [](/\ head \in Slots
          /\ tail \in Slots
          /\ \A t \in Threads : ltail[t] \in Slots /\ lhead[t] \in Slots)
    /\ [][/\ tail' # tail =>
                /\ tail' = BitAnd(tail + 1, capModMask)
                /\ \E t \in Threads : Moves(t, "e_tail", "e_pub")
          /\ head' # head =>
                /\ head' = BitAnd(head + 1, capModMask)
                /\ \E t \in Threads : Moves(t, "d_head", "d_rel")]_vars

\* C17's case: tail has just wrapped from cap - 1 to 0, after head has moved.
C17_Wrapped ==
    \E t \in Threads :
        pc[t] = "e_pub" /\ ltail[t] = cap - 1 /\ tail = 0 /\ Len(fetched) >= 1


\* A step of goroutine t in a call that has not won its claim CAS: the
\* snapshot load, the return of ErrQueueFull / ErrQueueEmpty, a failed claim.
UnclaimedStep(t) ==
    \/ Moves(t, "e_load", "e_claim")
    \/ Moves(t, "e_claim", "e_load")
    \/ ReturnsFull(t)
    \/ Moves(t, "d_load", "d_claim")
    \/ Moves(t, "d_claim", "d_load")
    \/ ReturnsEmpty(t)

\* C18: a call returns ErrQueueFull or ErrQueueEmpty from its snapshot load,
\* before any successful claim, and none of its steps up to there changes
\* head, tail or any slot's readWrite or value (a failed claim adds to
\* putWaits / getWaits only); the item of a rejected Enqueue is in no slot.
C18_RejectedChangesNothing ==
    [][\A t \in Threads :
          /\ UnclaimedStep(t) => UNCHANGED <<cap, capModMask, head, tail, rw, value>>
          /\ (err'[t] = ErrQueueFull /\ err[t] # ErrQueueFull) => ReturnsFull(t)
          /\ (err'[t] = ErrQueueEmpty /\ err[t] # ErrQueueEmpty) => ReturnsEmpty(t)
          /\ ReturnsFull(t) =>
                /\ err'[t] = ErrQueueFull
                /\ \A i \in Slots : value'[i] # item[t]
          /\ ReturnsEmpty(t) => err'[t] = ErrQueueEmpty]_vars

\* C18's case: an Enqueue has returned ErrQueueFull after a failed claim
\* attempt, and a Dequeue has returned ErrQueueEmpty.
C18_Rejected ==
    \E t, u \in Threads :
        /\ pc[t] = "idle" /\ err[t] = ErrQueueFull /\ putWaits > 0
        /\ pc[u] = "idle" /\ err[u] = ErrQueueEmpty


\* C19: with one producer and one consumer, both scheduled fairly, every
\* call of Enqueue and of Dequeue returns, and every value whose Enqueue
\* returned nil is eventually returned by a Dequeue.
C19_NoHangSPSC ==
    /\ \A t \in {TheProducer, TheConsumer} : (pc[t] # "idle") ~> (pc[t] = "idle")
    /\ \A x \in 0 .. (MaxN - 1) : (x \in putOK) ~> (x \in SeqToSet(fetched))

\* C19's case: a claim CAS has failed and was retried (the consumer's, on a
\* slot the producer had not yet published), the indices have wrapped, and
\* all the values have been delivered.
C19_Retried == getWaits > 0 /\ Len(fetched) = MaxN /\ MaxN > cap

====
